---- MODULE Spec2Model ----
(***************************************************************************)
(* Model of the user registration service (Usuario_ok.py): the Flask       *)
(* handler register_user() of POST /register, run by NReq concurrent       *)
(* requests against one PostgreSQL `users` table.                          *)
(*                                                                         *)
(* Each request walks the handler in the order of the code:                *)
(*   get_db_connection()  -> Connect / ConnectFails                        *)
(*   get_json/form, .get(), validation, bcrypt, conn.cursor()              *)
(*                        -> ReadBodyRaises / ValidationFails / Prepare    *)
(*   cursor.execute(INSERT ... RETURNING id)                               *)
(*            -> InsertWaits / Insert / InsertIntegrityError / InsertError *)
(*   cursor.fetchone()[0], conn.commit()                                   *)
(*                        -> Commit / AfterInsertError                     *)
(* The except clauses (rollback + response) and the finally clause         *)
(* (cursor.close, conn.close) are part of the step that raises.            *)
(***************************************************************************)
EXTENDS Naturals, FiniteSets, Sequences, TLC

\* Number of concurrent requests served.
NReq == 2

Reqs == 1..NReq

(***************************************************************************)
(* Values a field of the request body can hold (Python values).            *)
(***************************************************************************)
None == [kind |-> "none", v |-> ""]
Str(s) == [kind |-> "str", v |-> s]
Int(s) == [kind |-> "int", v |-> s]
Dict == [kind |-> "dict", v |-> "{k}"]

\* Python truthiness, as used by `not username` on line 56.
Truthy(x) ==
    CASE x.kind = "none" -> FALSE
      [] x.kind = "str"  -> x.v # ""
      [] x.kind = "int"  -> x.v # "0"
      [] OTHER           -> TRUE

\* A request body: its content type, the shape of the decoded JSON value
\* ("object" for a JSON object or a form, "array" for any other JSON
\* value), and the three fields (None when the key is absent or null).
Body(ctype, shape, u, e, p) ==
    [ctype |-> ctype, shape |-> shape, username |-> u, email |-> e, password |-> p]

Usernames == {"ana", "bob"}
Emails == {"ana@example.com", "bob@example.com"}
Password == "Secret123"

\* The bodies the requests are drawn from.
ValidBodies ==
    {Body("json", "object", Str(u), Str(e), Str(Password)) : u \in Usernames, e \in Emails}

BadValues == {None, Str(""), Int("0")}

MissingBodies ==
    {Body("json", "object", x, Str("ana@example.com"), Str(Password)) : x \in BadValues}
    \cup {Body("json", "object", Str("ana"), x, Str(Password)) : x \in BadValues}
    \cup {Body("json", "object", Str("ana"), Str("ana@example.com"), x) : x \in BadValues}
    \cup {Body("json", "object", Str("bob"), None, None),
          Body("json", "object", None, None, None),
          Body("json", "object", None, None, Int("7")),
          Body("form", "object", Str("ana"), Str(""), None)}

OddBodies ==
    {Body("json", "array", None, None, None),
     Body("json", "object", Str("ana"), Str("ana@example.com"), Int("7")),
     Body("json", "object", Dict, Str("bob@example.com"), Str(Password)),
     Body("form", "object", Str("bob"), Str("bob@example.com"), Str(Password))}

Bodies == ValidBodies \cup MissingBodies \cup OddBodies

NoBody == Body("none", "object", None, None, None)

\* Line 62, bcrypt.gensalt(): a random salt, fresh for every call. Each
\* call gets a salt of its own (that of request r is named after r).
GenSalt(r) == "salt" \o ToString(r)

(***************************************************************************)
(* Pure pieces of the handler.                                             *)
(***************************************************************************)

\* data = request.get_json(silent=True) or request.form; data.get(...)
\* works on a dict or a MultiDict and raises AttributeError otherwise.
HasGet(b) == b.shape = "object"

\* The check of line 56 with the password left out.
MissingFieldsIgnoringPassword(b) ==
    ~Truthy(b.username) \/ ~Truthy(b.email)

\* Line 56: `not username or not email or not password`.
MissingFields(b) ==
    ~Truthy(b.username) \/ ~Truthy(b.email) \/ ~Truthy(b.password)

\* Line 62: password.encode('utf-8') exists on str only.
CanEncode(p) == p.kind = "str"

\* The password stored as it came.
HashPwPlain(p, salt) == p.v

\* Line 62: bcrypt.hashpw(password, salt).decode(): a string made of the
\* bcrypt prefix, the salt and the digest of the password under it.
HashPw(p, salt) == "$2b$12$" \o salt \o "$" \o p.v

\* psycopg2 parameter adaptation for the INSERT: text and numbers are
\* adapted (a number is stored as its text), a dict is not adaptable.
CanAdapt(x) == x.kind \in {"str", "int"}
Adapt(x) == x.v

(***************************************************************************)
(* The store: the users table and its sequence.                            *)
(***************************************************************************)
NoRow == [id |-> 0, username |-> "", email |-> "", password_hash |-> ""]

\* A transaction of a connection: "idle" (none open), "active" (a
\* statement succeeded, its row is pending) or "aborted" (a statement
\* failed; only a rollback is accepted).
IdleTx == [state |-> "idle", row |-> NoRow]

VARIABLES
    users,    \* committed rows of the users table
    nextId,   \* next value of the id sequence
    tx,       \* tx[r]: the transaction of request r's connection
    pc,       \* pc[r]: position of request r in the handler
    body,     \* body[r]: the body request r carries
    conn,     \* conn[r]: "none", "open" or "closed"
    cursor,   \* cursor[r]: "none", "open" or "closed"
    hashed,   \* hashed[r]: hashed_password of request r
    resp,     \* resp[r]: the response the handler built
    log       \* log[r]: what request r did and met (history, not program
              \* state): connection acquired, body read, statements
              \* attempted (inserts, commits, rollbacks), the failure met
              \* (fault), the exception that left the handler (raised),
              \* the id its INSERT drew (rowId), whether its INSERT met a
              \* duplicate (conflict) or had to wait (waited), and whether
              \* a duplicate row was committed before it arrived (later)

vars == <<users, nextId, tx, pc, body, conn, cursor, hashed, resp, log>>

NoResp == [status |-> 0, user_id |-> 0, usuario |-> None, correo |-> None]

NoLog ==
    [connected |-> FALSE, bodyRead |-> FALSE, inserts |-> 0, commits |-> 0,
     rollbacks |-> 0, fault |-> "none", raised |-> "none", conflict |-> FALSE,
     rowId |-> 0, waited |-> FALSE, later |-> FALSE]

Init ==
    /\ users = {}
    /\ nextId = 1
    /\ tx = [r \in Reqs |-> IdleTx]
    /\ pc = [r \in Reqs |-> "idle"]
    /\ body = [r \in Reqs |-> NoBody]
    /\ conn = [r \in Reqs |-> "none"]
    /\ cursor = [r \in Reqs |-> "none"]
    /\ hashed = [r \in Reqs |-> ""]
    /\ resp = [r \in Reqs |-> NoResp]
    /\ log = [r \in Reqs |-> NoLog]

\* A users table whose email column has no uniqueness constraint.
UniqueViolationUsernameOnly(rows, u, e) ==
    \E row \in rows : row.username = u

\* UNIQUE (username), UNIQUE (email) of the users table: the statement
\* violates a constraint when a committed row holds the same value.
UniqueViolation(rows, u, e) ==
    \E row \in rows : row.username = u \/ row.email = e

\* An uncommitted row of another transaction with the same username or
\* email makes the INSERT wait for that transaction to end.
MustWait(r, u, e) ==
    \E q \in Reqs \ {r} :
        /\ tx[q].state = "active"
        /\ tx[q].row.username = u \/ tx[q].row.email = e

\* A handler that does not call conn.rollback().
NotRolledBack(t) == t

\* Lines 92 and 97, conn.rollback(): the transaction is discarded with
\* its pending row.
RolledBack(t) == IdleTx

\* A statement failed inside the transaction t.
Aborted(t) == [t EXCEPT !.state = "aborted"]

(***************************************************************************)
(* The responses the handler builds.                                       *)
(***************************************************************************)
\* Line 58.
MissingFieldsResponse == [NoResp EXCEPT !.status = 400]

\* A handler that validates the body before it looks at the connection.
StoreUnavailableValidatesFirst(b) ==
    IF HasGet(b) /\ MissingFields(b)
    THEN MissingFieldsResponse
    ELSE [NoResp EXCEPT !.status = 500]

\* Line 44.
StoreUnavailableResponse(b) == [NoResp EXCEPT !.status = 500]

\* Lines 83-88.
CreatedResponse(id, b) ==
    [status |-> 201, user_id |-> id, usuario |-> b.username, correo |-> b.email]

\* An IntegrityError answered like any other error.
ConflictResponseAsError == [NoResp EXCEPT !.status = 500]

\* Line 93.
ConflictResponse == [NoResp EXCEPT !.status = 409]

\* Any error answered as a conflict.
ErrorResponseAsConflict == [NoResp EXCEPT !.status = 409]

\* Line 99.
ErrorResponse == [NoResp EXCEPT !.status = 500]

(***************************************************************************)
(* The steps of register_user() for request r.                             *)
(***************************************************************************)

\* Line 42: the request (carrying body b, not read yet) reaches the
\* handler and get_db_connection() returns a connection.
Connect(r, b) ==
    /\ pc[r] = "idle"
    /\ pc' = [pc EXCEPT ![r] = "parse"]
    /\ body' = [body EXCEPT ![r] = b]
    /\ conn' = [conn EXCEPT ![r] = "open"]
    /\ log' = [log EXCEPT ![r].connected = TRUE,
                          ![r].later = UniqueViolation(users, Adapt(b.username),
                                                       Adapt(b.email))]
    /\ UNCHANGED <<users, nextId, tx, cursor, hashed, resp>>

\* Lines 42-44: psycopg2.connect raises OperationalError,
\* get_db_connection() returns None and the handler answers 500.
ConnectFails(r, b) ==
    /\ pc[r] = "idle"
    /\ pc' = [pc EXCEPT ![r] = "done"]
    /\ body' = [body EXCEPT ![r] = b]
    /\ resp' = [resp EXCEPT ![r] = StoreUnavailableResponse(b)]
    /\ log' = [log EXCEPT ![r].fault = "connect"]
    /\ UNCHANGED <<users, nextId, tx, conn, cursor, hashed>>

\* Lines 47-53 and 62: data.get on a JSON value that is no object, or
\* password.encode on a value that is no text, raises AttributeError
\* outside the try block: nothing is closed and no response is built.
ReadBodyRaises(r) ==
    /\ pc[r] = "parse"
    /\ \/ ~HasGet(body[r])
       \/ HasGet(body[r]) /\ ~MissingFields(body[r]) /\ ~CanEncode(body[r].password)
    /\ pc' = [pc EXCEPT ![r] = "done"]
    /\ log' = [log EXCEPT ![r].bodyRead = TRUE, ![r].raised = "AttributeError"]
    /\ UNCHANGED <<users, nextId, tx, body, conn, cursor, hashed, resp>>

\* A validation failure that returns without closing the connection.
ConnLeftOpen(c) == c

\* Line 57: conn.close() before the 400 is returned.
ConnAfterValidationFailure(c) == "closed"

\* Lines 56-58: a field is missing or empty.
ValidationFails(r) ==
    /\ pc[r] = "parse"
    /\ HasGet(body[r])
    /\ MissingFields(body[r])
    /\ pc' = [pc EXCEPT ![r] = "done"]
    /\ conn' = [conn EXCEPT ![r] = ConnAfterValidationFailure(conn[r])]
    /\ resp' = [resp EXCEPT ![r] = MissingFieldsResponse]
    /\ log' = [log EXCEPT ![r].bodyRead = TRUE]
    /\ UNCHANGED <<users, nextId, tx, body, cursor, hashed>>

\* Lines 47-64: the body is valid; the password is hashed under a fresh
\* salt and a cursor is opened.
Prepare(r) ==
    /\ pc[r] = "parse"
    /\ HasGet(body[r])
    /\ ~MissingFields(body[r])
    /\ CanEncode(body[r].password)
    /\ hashed' = [hashed EXCEPT ![r] = HashPw(body[r].password, GenSalt(r))]
    /\ cursor' = [cursor EXCEPT ![r] = "open"]
    /\ pc' = [pc EXCEPT ![r] = "insert"]
    /\ log' = [log EXCEPT ![r].bodyRead = TRUE]
    /\ UNCHANGED <<users, nextId, tx, body, conn, resp>>

\* Lines 101-104: the finally clause.
Finally(r) ==
    /\ cursor' = [cursor EXCEPT ![r] = "closed"]
    /\ conn' = [conn EXCEPT ![r] = "closed"]

\* The statement of request r is ready to run, or waits in the store.
AtInsert(r) == pc[r] \in {"insert", "waiting"}

\* Line 74: cursor.execute blocks while another transaction holds an
\* uncommitted row with the same username or email.
InsertWaits(r) ==
    /\ pc[r] = "insert"
    /\ CanAdapt(body[r].username) /\ CanAdapt(body[r].email)
    /\ ~UniqueViolation(users, Adapt(body[r].username), Adapt(body[r].email))
    /\ MustWait(r, Adapt(body[r].username), Adapt(body[r].email))
    /\ pc' = [pc EXCEPT ![r] = "waiting"]
    /\ log' = [log EXCEPT ![r].waited = TRUE]
    /\ UNCHANGED <<users, nextId, tx, body, conn, cursor, hashed, resp>>

\* Lines 69-74: cursor.execute(INSERT ... RETURNING id) succeeds; the row
\* is pending in the transaction of the request.
Insert(r) ==
    /\ AtInsert(r)
    /\ CanAdapt(body[r].username) /\ CanAdapt(body[r].email)
    /\ LET u == Adapt(body[r].username)
           e == Adapt(body[r].email)
       IN /\ ~UniqueViolation(users, u, e)
          /\ ~MustWait(r, u, e)
          /\ tx' = [tx EXCEPT ![r] =
                      [state |-> "active",
                       row |-> [id |-> nextId, username |-> u, email |-> e,
                                password_hash |-> hashed[r]]]]
    /\ nextId' = nextId + 1
    /\ pc' = [pc EXCEPT ![r] = "commit"]
    /\ log' = [log EXCEPT ![r].inserts = 1, ![r].rowId = nextId]
    /\ UNCHANGED <<users, body, conn, cursor, hashed, resp>>

\* Lines 74 and 90-93, 101-104: the INSERT violates a uniqueness
\* constraint (the sequence value it drew is lost), psycopg2 raises
\* IntegrityError, the handler rolls back and answers 409.
InsertIntegrityError(r) ==
    /\ AtInsert(r)
    /\ CanAdapt(body[r].username) /\ CanAdapt(body[r].email)
    /\ UniqueViolation(users, Adapt(body[r].username), Adapt(body[r].email))
    /\ nextId' = nextId + 1
    /\ tx' = [tx EXCEPT ![r] = RolledBack(Aborted(tx[r]))]
    /\ resp' = [resp EXCEPT ![r] = ConflictResponse]
    /\ pc' = [pc EXCEPT ![r] = "done"]
    /\ log' = [log EXCEPT ![r].inserts = 1, ![r].rollbacks = 1, ![r].conflict = TRUE]
    /\ Finally(r)
    /\ UNCHANGED <<users, body, hashed>>

\* Lines 74 and 95-99, 101-104: the INSERT raises another error (a value
\* psycopg2 cannot adapt, or a failure of the store); the handler rolls
\* back and answers 500.
InsertError(r) ==
    /\ AtInsert(r)
    /\ tx' = [tx EXCEPT ![r] = RolledBack(Aborted(tx[r]))]
    /\ resp' = [resp EXCEPT ![r] = ErrorResponse]
    /\ pc' = [pc EXCEPT ![r] = "done"]
    /\ log' = [log EXCEPT ![r].inserts = 1, ![r].rollbacks = 1, ![r].fault = "insert"]
    /\ Finally(r)
    /\ UNCHANGED <<users, nextId, body, hashed>>

\* Lines 77-88, 101-104: the id is fetched, the transaction commits and
\* the handler answers 201.
Commit(r) ==
    /\ pc[r] = "commit"
    /\ users' = users \cup {tx[r].row}
    /\ tx' = [tx EXCEPT ![r] = IdleTx]
    /\ resp' = [resp EXCEPT ![r] = CreatedResponse(tx[r].row.id, body[r])]
    /\ pc' = [pc EXCEPT ![r] = "done"]
    /\ log' = [log EXCEPT ![r].commits = 1]
    /\ Finally(r)
    /\ UNCHANGED <<nextId, body, hashed>>

\* Lines 77-80 and 95-99, 101-104: cursor.fetchone()[0] or conn.commit()
\* raises; the handler rolls back and answers 500.
AfterInsertError(r, at) ==
    /\ pc[r] = "commit"
    /\ tx' = [tx EXCEPT ![r] = RolledBack(Aborted(tx[r]))]
    /\ resp' = [resp EXCEPT ![r] = ErrorResponse]
    /\ pc' = [pc EXCEPT ![r] = "done"]
    /\ log' = [log EXCEPT ![r].rollbacks = 1, ![r].fault = at,
                          ![r].commits = IF at = "commit" THEN 1 ELSE 0]
    /\ Finally(r)
    /\ UNCHANGED <<users, nextId, body, hashed>>

Next ==
    \E r \in Reqs :
        \/ \E b \in Bodies : Connect(r, b)
        \/ \E b \in Bodies : ConnectFails(r, b)
        \/ ReadBodyRaises(r)
        \/ ValidationFails(r)
        \/ Prepare(r)
        \/ InsertWaits(r)
        \/ Insert(r)
        \/ InsertIntegrityError(r)
        \/ InsertError(r)
        \/ Commit(r)
        \/ \E at \in {"fetch", "commit"} : AfterInsertError(r, at)

Spec == Init /\ [][Next]_vars

(***************************************************************************)
(* Vocabulary of the properties.                                           *)
(***************************************************************************)
Done(r) == pc[r] = "done"

\* The body is a JSON object or a form whose three fields are non-empty
\* text (the input the contract of register expects).
TextFields(b) ==
    /\ HasGet(b)
    /\ \A x \in {b.username, b.email, b.password} : x.kind = "str" /\ x.v # ""

\* No failure of the store (connection, insert, fetch, commit) hit request r.
NoFault(r) == log[r].fault = "none"

SharesKey(a, b) == a.username = b.username \/ a.email = b.email

\* The committed rows request r inserted.
RowsOf(r) == {row \in users : log[r].rowId # 0 /\ row.id = log[r].rowId}

\* Request r executed no statement and holds no transaction.
NoStatement(r) ==
    /\ log[r].inserts = 0 /\ log[r].commits = 0 /\ log[r].rollbacks = 0
    /\ tx[r] = IdleTx

ByUsername(u) == {row \in users : row.username = u}
ByEmail(e) == {row \in users : row.email = e}

\* A field is absent or is the empty string.
AbsentOrEmpty(x) == x.kind = "none" \/ (x.kind = "str" /\ x.v = "")

AnyFieldAbsentOrEmpty(b) ==
    AbsentOrEmpty(b.username) \/ AbsentOrEmpty(b.email) \/ AbsentOrEmpty(b.password)

Statuses == {201, 400, 409, 500}

(***************************************************************************)
(* C1. Of two requests that carry the same username or the same email      *)
(* (three text fields each, no store failure), in any interleaving, at     *)
(* most one commits a row and answers 201; each is answered 201 or 409,    *)
(* never 500, and none raises out of the handler.                          *)
(***************************************************************************)
C1_ConcurrentDuplicates ==
    \A r1, r2 \in Reqs :
        ( /\ r1 # r2
          /\ Done(r1) /\ Done(r2)
          /\ TextFields(body[r1]) /\ TextFields(body[r2])
          /\ NoFault(r1) /\ NoFault(r2)
          /\ SharesKey(body[r1], body[r2]) )
        => /\ ~(resp[r1].status = 201 /\ resp[r2].status = 201)
           /\ resp[r1].status \in {201, 409}
           /\ resp[r2].status \in {201, 409}
           /\ log[r1].raised = "none" /\ log[r2].raised = "none"
           /\ Cardinality(RowsOf(r1) \cup RowsOf(r2)) <= 1

\* Two requests with the same username raced: one waited for the other's
\* uncommitted insert, the first got 201 and the second 409.
C1_Witness ==
    \E r1, r2 \in Reqs :
        /\ r1 # r2 /\ Done(r1) /\ Done(r2)
        /\ TextFields(body[r1]) /\ TextFields(body[r2])
        /\ NoFault(r1) /\ NoFault(r2)
        /\ body[r1].username = body[r2].username
        /\ log[r2].waited
        /\ resp[r1].status = 201 /\ resp[r2].status = 409

(***************************************************************************)
(* C2. In every reachable state no two committed rows of the users table   *)
(* share a username, and no two share an email.                            *)
(***************************************************************************)
C2_UniqueUsernameEmail ==
    \A a, b \in users :
        a # b => a.username # b.username /\ a.email # b.email

\* A committed row exists and a request with the same email and another
\* username was refused after waiting for it.
C2_Witness ==
    \E r \in Reqs :
        /\ Done(r) /\ log[r].conflict /\ log[r].waited
        /\ \E row \in users :
              /\ row.email = body[r].email.v
              /\ row.username # body[r].username.v

(***************************************************************************)
(* C3. A request with three non-empty text fields whose INSERT met no      *)
(* existing row with its username or email (and no store failure) is       *)
(* answered 201 with a positive user_id and the submitted username and     *)
(* email; the store then holds exactly one row with that username and      *)
(* email, its id is the returned user_id and its password_hash differs     *)
(* from the plaintext password.                                            *)
(***************************************************************************)
C3_ValidRegistrationCreated ==
    \A r \in Reqs :
        (Done(r) /\ TextFields(body[r]) /\ NoFault(r) /\ ~log[r].conflict)
        => /\ resp[r].status = 201
           /\ resp[r].user_id > 0
           /\ resp[r].usuario = body[r].username
           /\ resp[r].correo = body[r].email
           /\ LET match == {row \in users :
                               /\ row.username = body[r].username.v
                               /\ row.email = body[r].email.v}
              IN /\ Cardinality(match) = 1
                 /\ \A row \in match :
                       /\ row.id = resp[r].user_id
                       /\ row.password_hash # body[r].password.v

\* A valid request was answered 201 while another row was already there.
C3_Witness ==
    \E r \in Reqs :
        /\ Done(r) /\ TextFields(body[r]) /\ NoFault(r) /\ ~log[r].conflict
        /\ resp[r].status = 201
        /\ Cardinality(users) = 2

(***************************************************************************)
(* C4. A request that arrives when a committed row already holds its       *)
(* username or its email (three text fields, no store failure) is answered *)
(* 409, its transaction is rolled back and it leaves no row; the store     *)
(* holds exactly one row for the shared username (respectively email).     *)
(***************************************************************************)
C4_DuplicateRejected ==
    \A r \in Reqs :
        (Done(r) /\ log[r].later /\ TextFields(body[r]) /\ NoFault(r))
        => /\ resp[r].status = 409
           /\ log[r].rollbacks = 1 /\ log[r].commits = 0
           /\ tx[r] = IdleTx
           /\ log[r].rowId = 0 /\ RowsOf(r) = {}
           /\ Cardinality(ByUsername(body[r].username.v)) <= 1
           /\ Cardinality(ByEmail(body[r].email.v)) <= 1
           /\ ByUsername(body[r].username.v) \cup ByEmail(body[r].email.v) # {}

\* The later request carried the username of a committed row with another
\* email and was answered 409.
C4_Witness ==
    \E r \in Reqs :
        /\ Done(r) /\ log[r].later /\ TextFields(body[r]) /\ NoFault(r)
        /\ resp[r].status = 409
        /\ \E row \in users :
              /\ row.username = body[r].username.v
              /\ row.email # body[r].email.v
        /\ Cardinality(ByUsername(body[r].username.v)) = 1

C6_ConnectionReleased ==
    \A r \in Reqs :
        (Done(r) /\ log[r].connected)
        => conn[r] = "closed" /\ cursor[r] # "open"

(***************************************************************************)
(* C7. Every register call ends with a response built by the handler whose *)
(* status is 201, 400, 409 or 500; no exception leaves the handler.        *)
(***************************************************************************)
C7_AlwaysAnswered ==
    \A r \in Reqs :
        Done(r) => resp[r].status \in Statuses /\ log[r].raised = "none"

(***************************************************************************)
(* C8. When the connection cannot be acquired the request is answered 500  *)
(* before its body is read, whatever the body holds, and no insert, commit *)
(* or rollback is attempted.                                               *)
(***************************************************************************)
C8_StoreUnavailable ==
    \A r \in Reqs :
        (Done(r) /\ ~log[r].connected)
        => /\ resp[r].status = 500
           /\ ~log[r].bodyRead
           /\ NoStatement(r)
           /\ conn[r] = "none" /\ cursor[r] = "none"

\* A body with missing fields was answered 500 because the store was
\* unavailable.
C8_Witness ==
    \E r \in Reqs :
        /\ Done(r) /\ ~log[r].connected
        /\ AnyFieldAbsentOrEmpty(body[r])
        /\ resp[r].status = 500

(***************************************************************************)
(* C9 as claimed. A request answered 400 for missing fields had no         *)
(* interaction with the store: no connection was opened and no insert was  *)
(* attempted for it.                                                       *)
(***************************************************************************)
C9_NoStoreInteraction ==
    \A r \in Reqs :
        (Done(r) /\ resp[r].status = 400)
        => conn[r] = "none" /\ ~log[r].connected /\ log[r].inserts = 0

(***************************************************************************)
(* C9 as amended. A request that fails validation (a JSON object or form   *)
(* with a field absent or empty) is answered 400 on a connection that was  *)
(* opened before validation and is closed unused: no cursor is opened and  *)
(* no insert, commit or rollback is attempted.                             *)
(***************************************************************************)
C9_ValidationUsesNoStatement ==
    \A r \in Reqs :
        /\ (Done(r) /\ log[r].connected /\ HasGet(body[r])
               /\ AnyFieldAbsentOrEmpty(body[r]))
           => /\ resp[r].status = 400
              /\ conn[r] = "closed"
              /\ cursor[r] = "none"
              /\ NoStatement(r)
        /\ (Done(r) /\ resp[r].status = 400)
           => log[r].connected /\ log[r].bodyRead /\ conn[r] = "closed"

\* A form with a missing password was answered 400 and its connection closed.
C9_Witness ==
    \E r \in Reqs :
        /\ Done(r) /\ resp[r].status = 400
        /\ body[r].ctype = "form"
        /\ conn[r] = "closed" /\ cursor[r] = "none"

====
